---- MODULE Spec2Model ----
(***************************************************************************)
(* A model of data_info_extractor.py: the tabular type inference           *)
(* (apply_qlik_cloud_inference, process_tabular) and the semi-structured   *)
(* flattener (process_semi_structured, process_semi_structured_data).      *)
(*                                                                         *)
(* Text is a sequence of one-character strings, so that strip, lower,      *)
(* split, the float grammar and the strptime patterns are computed on the  *)
(* characters.  A cell or leaf value is a record [t, s, n]:                *)
(*   t = "null"  None / NaN                                                *)
(*   t = "str"   a Python str, s its characters                            *)
(*   t = "bool"  a Python bool, n = 1 for True                             *)
(*   t = "int"   a Python int, n its value                                 *)
(*   t = "float" a Python float, n its value in tenths                     *)
(*   t = "dt"    a pandas Timestamp, s its "YYYY-MM-DD HH:MM:SS" text      *)
(***************************************************************************)
EXTENDS Integers, Sequences, FiniteSets, TLC

VARIABLES kind, pc, df_in, df, data, output_lines, picks, split_log

vars == <<kind, pc, df_in, df, data, output_lines, picks, split_log>>

----------------------------------------------------------------------------
(* Characters and text *)

Digits == <<"0", "1", "2", "3", "4", "5", "6", "7", "8", "9">>

UpperLetters == <<"A", "B", "C", "D", "E", "F", "G", "H", "I", "J", "K", "L", "M",
                  "N", "O", "P", "Q", "R", "S", "T", "U", "V", "W", "X", "Y", "Z">>

LowerLetters == <<"a", "b", "c", "d", "e", "f", "g", "h", "i", "j", "k", "l", "m",
                  "n", "o", "p", "q", "r", "s", "t", "u", "v", "w", "x", "y", "z">>

IsDigit(c) == \E i \in 1..Len(Digits) : Digits[i] = c

DigitVal(c) == (CHOOSE i \in 1..Len(Digits) : Digits[i] = c) - 1

IsSpace(c) == c = " "

\* str.lower() on one character
LowerChar(c) ==
    IF \E i \in 1..Len(UpperLetters) : UpperLetters[i] = c
    THEN LowerLetters[CHOOSE i \in 1..Len(UpperLetters) : UpperLetters[i] = c]
    ELSE c

\* str.lower()
Lower(s) == [i \in 1..Len(s) |-> LowerChar(s[i])]

RECURSIVE LStrip(_)
LStrip(s) == IF s # <<>> /\ IsSpace(Head(s)) THEN LStrip(Tail(s)) ELSE s

RECURSIVE RStrip(_)
RStrip(s) ==
    IF s # <<>> /\ IsSpace(s[Len(s)]) THEN RStrip(SubSeq(s, 1, Len(s) - 1)) ELSE s

\* str.strip()
Strip(s) == RStrip(LStrip(s))

\* str.endswith(suffix)
EndsWith(s, suffix) ==
    /\ Len(s) >= Len(suffix)
    /\ SubSeq(s, Len(s) - Len(suffix) + 1, Len(s)) = suffix

Contains(s, c) == \E i \in 1..Len(s) : s[i] = c

\* the length of the longest prefix of s made of digits
RECURSIVE DigitRun(_)
DigitRun(s) == IF s # <<>> /\ IsDigit(Head(s)) THEN 1 + DigitRun(Tail(s)) ELSE 0

\* int() of a non-empty run of digits
RECURSIVE DigitsToInt(_)
DigitsToInt(s) ==
    IF s = <<>> THEN 0
    ELSE DigitsToInt(SubSeq(s, 1, Len(s) - 1)) * 10 + DigitVal(s[Len(s)])

\* str() of a non-negative int
RECURSIVE NatToText(_)
NatToText(n) ==
    IF n < 10 THEN <<Digits[n + 1]>>
    ELSE NatToText(n \div 10) \o <<Digits[(n % 10) + 1]>>

\* str() of an int
IntToText(n) == IF n < 0 THEN <<"-">> \o NatToText(0 - n) ELSE NatToText(n)

\* str() of a float held in tenths: 105 is "10.5", 10 is "1.0"
FloatToText(n) ==
    LET a == IF n < 0 THEN 0 - n ELSE n
    IN  (IF n < 0 THEN <<"-">> ELSE <<>>)
        \o NatToText(a \div 10) \o <<".">> \o NatToText(a % 10)

\* a number on two digits, as "%02d"
Pad2(n) == <<Digits[(n \div 10) + 1], Digits[(n % 10) + 1]>>

----------------------------------------------------------------------------
(* Values *)

Null == [t |-> "null", s |-> <<>>, n |-> 0]

StrV(s) == [t |-> "str", s |-> s, n |-> 0]

BoolV(b) == [t |-> "bool", s |-> <<>>, n |-> IF b THEN 1 ELSE 0]

IntV(n) == [t |-> "int", s |-> <<>>, n |-> n]

FloatV(n) == [t |-> "float", s |-> <<>>, n |-> n]

DtV(s) == [t |-> "dt", s |-> s, n |-> 0]

T_None == <<"N", "o", "n", "e">>
T_True == <<"T", "r", "u", "e">>
T_False == <<"F", "a", "l", "s", "e">>
T_NA == <<"N", "/", "A">>

\* str(value), which is also what an f-string writes for the value
PyStr(v) ==
    CASE v.t = "str"   -> v.s
      [] v.t = "bool"  -> IF v.n = 1 THEN T_True ELSE T_False
      [] v.t = "int"   -> IntToText(v.n)
      [] v.t = "float" -> FloatToText(v.n)
      [] v.t = "dt"    -> v.s
      [] OTHER         -> T_None

----------------------------------------------------------------------------
(* Data Type Inference Logic: the tests on one column *)

\* Series.dropna()
DropNa(values) == SelectSeq(values, LAMBDA v : v.t # "null")

\* The text after an optional sign.
Unsigned(s) == IF s # <<>> /\ Head(s) \in {"+", "-"} THEN Tail(s) ELSE s

\* The decimal text pd.to_numeric converts: blanks around it, a sign, digits
\* with at most one point and at least one digit.  (Exponent, inf and nan
\* spellings are not among the texts of the model.)
IsDecimalText(s) ==
    LET u == Unsigned(Strip(s))
        i == DigitRun(u)
        r == SubSeq(u, i + 1, Len(u))
        j == IF r # <<>> /\ Head(r) = "." THEN DigitRun(Tail(r)) ELSE 0
    IN  /\ i + j >= 1
        /\ \/ r = <<>>
           \/ Head(r) = "." /\ Len(r) = 1 + j

\* Whether the decimal text is written without a point (pandas keeps an int).
IsIntegerText(s) == IsDecimalText(s) /\ ~Contains(s, ".")

\* The number of a decimal text, in tenths.
DecimalTenths(s) ==
    LET t == Strip(s)
        u == Unsigned(t)
        i == DigitRun(u)
        r == SubSeq(u, i + 1, Len(u))
        f == IF Len(r) >= 2 THEN DigitVal(r[2]) ELSE 0
        a == DigitsToInt(SubSeq(u, 1, i)) * 10 + f
    IN  IF t # <<>> /\ Head(t) = "-" THEN 0 - a ELSE a

\* Whether pd.to_numeric(errors='raise') converts the value: a str converts
\* when it is empty (it becomes NaN) or a decimal text; bool, int and float do.
NumericParseable(v) ==
    CASE v.t = "str" -> v.s = <<>> \/ IsDecimalText(v.s)
      [] v.t \in {"bool", "int", "float", "null"} -> TRUE
      [] OTHER -> FALSE

is_numeric_series(values) ==
    \A i \in 1..Len(DropNa(values)) : NumericParseable(DropNa(values)[i])

\* The formats of is_date_series, "%Y" a directive and any other entry a
\* literal character of the format.
date_formats ==
    << <<"%Y", "-", "%m", "-", "%d">>,
       <<"%Y", "/", "%m", "/", "%d">>,
       <<"%Y", "-", "%m", "-", "%d", " ", "%H", ":", "%M", ":", "%S">>,
       <<"%m", "/", "%d", "/", "%Y">> >>

IsDirective(tok) == tok \in {"%Y", "%m", "%d", "%H", "%M", "%S"}

\* What strptime accepts for a directive: r digits of value v.
FieldOK(tok, r, v) ==
    CASE tok = "%Y" -> r = 4
      [] tok = "%m" -> r \in 1..2 /\ v \in 1..12
      [] tok = "%d" -> r \in 1..2 /\ v \in 1..31
      [] tok = "%H" -> r \in 1..2 /\ v \in 0..23
      [] OTHER      -> r \in 1..2 /\ v \in 0..59

IsLeap(y) == (y % 4 = 0 /\ y % 100 # 0) \/ y % 400 = 0

DaysInMonth(y, m) ==
    IF m = 2 THEN (IF IsLeap(y) THEN 29 ELSE 28)
    ELSE IF m \in {4, 6, 9, 11} THEN 30 ELSE 31

\* datetime(...) raises ValueError for a date that does not exist.
ValidDate(f) == f["%Y"] >= 1 /\ f["%d"] <= DaysInMonth(f["%Y"], f["%m"])

DateDefaults ==
    [tok \in {"%Y", "%m", "%d", "%H", "%M", "%S"} |->
        IF tok = "%Y" THEN 1900 ELSE IF tok \in {"%m", "%d"} THEN 1 ELSE 0]

NoDate == [ok |-> FALSE, f |-> DateDefaults]

\* datetime.strptime(s, fmt): the fields read so far are in acc.
RECURSIVE Strptime(_, _, _)
Strptime(s, fmt, acc) ==
    IF fmt = <<>> THEN [ok |-> s = <<>> /\ ValidDate(acc), f |-> acc]
    ELSE LET tok == Head(fmt) IN
         IF IsDirective(tok)
         THEN LET r == DigitRun(s)
                  v == DigitsToInt(SubSeq(s, 1, r))
              IN  IF FieldOK(tok, r, v)
                  THEN Strptime(SubSeq(s, r + 1, Len(s)), Tail(fmt),
                                [acc EXCEPT ![tok] = v])
                  ELSE NoDate
         ELSE IF tok = " "
         THEN IF s # <<>> /\ IsSpace(Head(s))
              THEN Strptime(LStrip(s), Tail(fmt), acc)
              ELSE NoDate
         ELSE IF s # <<>> /\ Head(s) = tok
              THEN Strptime(Tail(s), Tail(fmt), acc)
              ELSE NoDate

\* can_parse_date: some format parses value.strip()
can_parse_date(s) ==
    \E k \in 1..Len(date_formats) :
        Strptime(Strip(s), date_formats[k], DateDefaults).ok

\* is_date_series with any(...) where the code has all(...)
is_date_series_any(values) ==
    LET non_nulls == [i \in 1..Len(DropNa(values)) |-> PyStr(DropNa(values)[i])]
    IN  \E i \in 1..Len(non_nulls) : can_parse_date(non_nulls[i])

is_date_series(values) ==
    LET non_nulls == [i \in 1..Len(DropNa(values)) |-> PyStr(DropNa(values)[i])]
    IN  \A i \in 1..Len(non_nulls) : can_parse_date(non_nulls[i])

bool_values ==
    { <<"t", "r", "u", "e">>, <<"f", "a", "l", "s", "e">>, <<"0">>, <<"1">> }

is_boolean_series(values) ==
    LET non_nulls ==
            [i \in 1..Len(DropNa(values)) |-> Strip(Lower(PyStr(DropNa(values)[i])))]
    IN  \A i \in 1..Len(non_nulls) : non_nulls[i] \in bool_values

----------------------------------------------------------------------------
(* apply_qlik_cloud_inference.  A table is a sequence of columns           *)
(* [name, dtype, values], the names distinct, every column as long as the  *)
(* others.                                                                 *)

Col(name, dtype, values) == [name |-> name, dtype |-> dtype, values |-> values]

HasColumn(table, name) == \E i \in 1..Len(table) : table[i].name = name

ColumnIndex(table, name) == CHOOSE i \in 1..Len(table) : table[i].name = name

\* df[name]
Column(table, name) == table[ColumnIndex(table, name)]

\* df[name] = column: in place when the name exists, a new last column otherwise
SetColumn(table, name, dtype, values) ==
    IF HasColumn(table, name)
    THEN [table EXCEPT ![ColumnIndex(table, name)] = Col(name, dtype, values)]
    ELSE Append(table, Col(name, dtype, values))

T_DualText == <<"_", "D", "u", "a", "l", "T", "e", "x", "t">>

\* lambda x: str(x).lower() in ['true', '1']
to_bool(x) == BoolV(Lower(PyStr(x)) \in { <<"t", "r", "u", "e">>, <<"1">> })

\* Series.apply keeps the dtype of a series without rows.
apply_dtype(values, dtype) == IF Len(values) = 0 THEN "object" ELSE dtype

\* Whether pd.to_numeric keeps int64: every value an integer, none missing.
IsIntegerValue(v) ==
    CASE v.t = "str" -> v.s # <<>> /\ IsIntegerText(v.s)
      [] v.t \in {"int", "bool"} -> TRUE
      [] OTHER -> FALSE

\* pd.to_numeric(errors='coerce') of one value, in tenths
NumericTenths(v) ==
    CASE v.t = "str"   -> IF IsDecimalText(v.s) THEN FloatV(DecimalTenths(v.s)) ELSE Null
      [] v.t = "float" -> v
      [] v.t \in {"int", "bool"} -> FloatV(v.n * 10)
      [] OTHER -> Null

AllIntegers(values) == \A i \in 1..Len(values) : IsIntegerValue(values[i])

to_numeric_dtype(values) == IF AllIntegers(values) THEN "int64" ELSE "float64"

to_numeric(values) ==
    IF AllIntegers(values)
    THEN [i \in 1..Len(values) |-> IntV(NumericTenths(values[i]).n \div 10)]
    ELSE [i \in 1..Len(values) |-> NumericTenths(values[i])]

\* str(Timestamp)
TimestampText(f) ==
    Pad2(f["%Y"] \div 100) \o Pad2(f["%Y"] % 100) \o <<"-">> \o Pad2(f["%m"])
    \o <<"-">> \o Pad2(f["%d"]) \o <<" ">> \o Pad2(f["%H"]) \o <<":">>
    \o Pad2(f["%M"]) \o <<":">> \o Pad2(f["%S"])

\* pd.to_datetime(errors='coerce') of one value: the first format that parses
\* it, NaT when none does.
to_datetime_value(v) ==
    IF v.t = "null" \/ ~can_parse_date(PyStr(v)) THEN Null
    ELSE LET k == CHOOSE k \in 1..Len(date_formats) :
                    /\ Strptime(Strip(PyStr(v)), date_formats[k], DateDefaults).ok
                    /\ \A j \in 1..(k - 1) :
                          ~Strptime(Strip(PyStr(v)), date_formats[j], DateDefaults).ok
         IN  DtV(TimestampText(Strptime(Strip(PyStr(v)), date_formats[k], DateDefaults).f))

to_datetime(values) == [i \in 1..Len(values) |-> to_datetime_value(values[i])]

\* The body of the loop of apply_qlik_cloud_inference for the column col.
infer_column(table, col) ==
    LET c == Column(table, col) IN
    IF c.dtype = "object"
    THEN IF is_boolean_series(c.values)
         THEN SetColumn(table, col, apply_dtype(c.values, "bool"),
                        [i \in 1..Len(c.values) |-> to_bool(c.values[i])])
         ELSE IF is_numeric_series(c.values)
         THEN IF is_date_series(c.values)
              THEN SetColumn(SetColumn(table, col \o T_DualText, "object", c.values),
                             col, to_numeric_dtype(c.values), to_numeric(c.values))
              ELSE SetColumn(table, col, to_numeric_dtype(c.values), to_numeric(c.values))
         ELSE IF is_date_series(c.values)
         THEN SetColumn(table, col, "datetime64", to_datetime(c.values))
         ELSE table
    ELSE table

\* for col in df.columns: the names are those the table had when the loop began
RECURSIVE InferColumns(_, _)
InferColumns(table, names) ==
    IF names = <<>> THEN table
    ELSE InferColumns(infer_column(table, Head(names)), Tail(names))

apply_qlik_cloud_inference(table) ==
    InferColumns(table, [i \in 1..Len(table) |-> table[i].name])

----------------------------------------------------------------------------
(* Helper Functions: process_tabular *)

L_Boolean == <<"B", "o", "o", "l", "e", "a", "n">>
L_Numeric == <<"N", "u", "m", "e", "r", "i", "c">>
L_DateTime == <<"D", "a", "t", "e", "/", "T", "i", "m", "e">>
L_String == <<"S", "t", "r", "i", "n", "g">>
L_Unknown == <<"U", "n", "k", "n", "o", "w", "n">>
T_DualLabel == <<" ", "(", "D", "u", "a", "l", " ", "s", "t", "r", "i", "n", "g", " ",
                 "r", "e", "p", "r", "e", "s", "e", "n", "t", "a", "t", "i", "o", "n", ")">>

infer_data_type_for_series(c) ==
    CASE c.dtype = "bool" -> L_Boolean
      [] c.dtype \in {"int64", "float64"} -> L_Numeric
      [] c.dtype = "datetime64" -> L_DateTime
      [] c.dtype = "object" -> L_String
      [] OTHER -> L_Unknown

\* The rows random.choice can return for a column: the rows that are not null,
\* and 0, standing for 'N/A', when there is none.
SampleRows(c) ==
    LET rows == {r \in 1..Len(c.values) : c.values[r].t # "null"}
    IN  IF rows = {} THEN {0} ELSE rows

\* get_random_example_tabular, the row drawn being r
get_random_example_tabular(c, r) == IF r = 0 THEN T_NA ELSE PyStr(c.values[r])

\* One line of process_tabular, for the column c and the row r drawn for it.
tabular_line(c, r) ==
    IF EndsWith(c.name, T_DualText)
    THEN c.name \o T_DualLabel \o <<";">> \o L_String \o <<";">>
         \o get_random_example_tabular(c, r)
    ELSE c.name \o <<";">> \o infer_data_type_for_series(c) \o <<";">>
         \o get_random_example_tabular(c, r)

\* process_tabular, rows[i] being the row random.choice draws for column i
process_tabular(table, rows) ==
    [i \in 1..Len(table) |-> tabular_line(table[i], rows[i])]

\* The draws process_tabular can make.
Draws(table) ==
    {rows \in [1..Len(table) -> 0..(IF table = <<>> THEN 0 ELSE Len(table[1].values))] :
        \A i \in 1..Len(table) : rows[i] \in SampleRows(table[i])}

----------------------------------------------------------------------------
(* Helper Functions: the semi-structured flattener.  A nested value is a   *)
(* record [k, keys, kids, v]: k = "dict" with the keys and the values of   *)
(* its members in insertion order, k = "list" with its items in kids, or   *)
(* k = "leaf" with the scalar v.                                           *)

Leaf(v) == [k |-> "leaf", keys |-> <<>>, kids |-> <<>>, v |-> v]

ListNode(items) == [k |-> "list", keys |-> <<>>, kids |-> items, v |-> Null]

DictNode(keys, values) == [k |-> "dict", keys |-> keys, kids |-> values, v |-> Null]

\* infer_data_type of a scalar: bool is tested before int and float; None is
\* none of the tested types.
infer_data_type(v) ==
    CASE v.t = "bool" -> L_Boolean
      [] v.t \in {"int", "float"} -> L_Numeric
      [] v.t = "str" -> L_String
      [] OTHER -> L_Unknown

\* member_key without the test of parent_key
member_key_dotted(parent_key, key) == parent_key \o <<".">> \o key

\* f"{parent_key}.{key}" if parent_key else key
member_key(parent_key, key) ==
    IF parent_key # <<>> THEN parent_key \o <<".">> \o key ELSE key

\* f"{parent_key}[{index}]"
index_key(parent_key, index) == parent_key \o <<"[">> \o IntToText(index) \o <<"]">>

\* data if data is not None else 'N/A', as the f-string writes it
leaf_example(v) == IF v.t # "null" THEN PyStr(v) ELSE T_NA

\* f"{parent_key};{data_type};{example}"
leaf_line(parent_key, v) ==
    parent_key \o <<";">> \o infer_data_type(v) \o <<";">> \o leaf_example(v)

RECURSIVE process_semi_structured(_, _)
RECURSIVE ProcessKids(_, _, _)
\* the lines of the members (or items) i, i+1, ... of the container
ProcessKids(node, parent_key, i) ==
    IF i > Len(node.kids) THEN <<>>
    ELSE process_semi_structured(
            node.kids[i],
            IF node.k = "dict" THEN member_key(parent_key, node.keys[i])
                               ELSE index_key(parent_key, i - 1))
         \o ProcessKids(node, parent_key, i + 1)

process_semi_structured(node, parent_key) ==
    IF node.k \in {"dict", "list"} THEN ProcessKids(node, parent_key, 1)
    ELSE <<leaf_line(parent_key, node.v)>>

\* The positions of the separator in a line, in increasing order.
RECURSIVE SeparatorsFrom(_, _)
SeparatorsFrom(line, i) ==
    IF i > Len(line) THEN <<>>
    ELSE (IF line[i] = ";" THEN <<i>> ELSE <<>>) \o SeparatorsFrom(line, i + 1)

\* line.split(';', 2), for a line with two separators or more
split_2(line) ==
    LET at == SeparatorsFrom(line, 1) IN
    [field   |-> SubSeq(line, 1, at[1] - 1),
     dtype   |-> SubSeq(line, at[1] + 1, at[2] - 1),
     example |-> SubSeq(line, at[2] + 1, Len(line))]

\* the lines of every item of a top-level list, item after item
RECURSIVE ItemLines(_, _)
ItemLines(items, i) ==
    IF i > Len(items) THEN <<>>
    ELSE process_semi_structured(items[i], <<>>) \o ItemLines(items, i + 1)

\* seen_fields after the lines: a field not seen yet is added, last
RECURSIVE SeenFields(_, _)
SeenFields(seen, lines) ==
    IF lines = <<>> THEN seen
    ELSE LET parts == split_2(Head(lines)) IN
         SeenFields(IF \E j \in 1..Len(seen) : seen[j].field = parts.field
                    THEN seen ELSE Append(seen, parts),
                    Tail(lines))

\* f"{field};{dtype};{example}"
rebuild_line(parts) ==
    parts.field \o <<";">> \o parts.dtype \o <<";">> \o parts.example

process_semi_structured_data(node) ==
    IF node.k = "list"
    THEN LET seen_fields == SeenFields(<<>>, ItemLines(node.kids, 1))
         IN  [j \in 1..Len(seen_fields) |-> rebuild_line(seen_fields[j])]
    ELSE process_semi_structured(node, <<>>)

\* every (field, dtype, example) the top-level list branch splits off, in order
SplitLog(node) ==
    IF node.k = "list"
    THEN LET lines == ItemLines(node.kids, 1)
         IN  [j \in 1..Len(lines) |-> split_2(lines[j])]
    ELSE <<>>

----------------------------------------------------------------------------
(* The inputs *)

MaxRows == 2

MaxNodes == 4

N_d == <<"d">>

ColumnNames == {N_d, N_d \o T_DualText}

\* the cells of a column that is still text: missing, boolean with blanks
\* and capitals, numeric, plain text, a date
RawCells ==
    { Null,
      StrV(<<" ", "T", "r", "u", "e", " ">>),
      StrV(<<"1", "0", ".", "5">>),
      StrV(<<"a", "b", "c">>),
      StrV(<<"2", "0", "2", "4", "-", "0", "1", "-", "0", "2">>) }

DateText(i) == <<"2", "0", "2", "4", "-", "0", "1", "-">> \o Pad2(i)

\* the columns a reader has typed already, n rows long
TypedColumns(n) ==
    { [dtype |-> "bool", values |-> [i \in 1..n |-> BoolV(i % 2 = 1)]],
      [dtype |-> "int64", values |-> [i \in 1..n |-> IntV(i)]],
      [dtype |-> "float64",
       values |-> [i \in 1..n |-> IF i = 1 THEN Null ELSE FloatV(10 * i + 5)]],
      [dtype |-> "datetime64",
       values |-> [i \in 1..n |-> DtV(DateText(i) \o <<" ", "0", "0", ":", "0", "0", ":", "0", "0">>)]] }

RawColumns(n) == {[dtype |-> "object", values |-> vs] : vs \in [1..n -> RawCells]}

TextColumns(n) == {[dtype |-> "object", values |-> [i \in 1..n |-> StrV(DateText(i))]]}

NameLists ==
    UNION { {ns \in [1..m -> ColumnNames] : \A i, j \in 1..m : i # j => ns[i] # ns[j]} :
            m \in 1..Cardinality(ColumnNames) }

\* the columns a '.qvd' file can hold, n rows long
QvdColumns(n) == RawColumns(n) \cup TypedColumns(n)

\* the columns a '.parquet' file can hold, n rows long
ParquetColumns(n) == TextColumns(n) \cup TypedColumns(n)

\* the table of the columns cs under the names ns
Table(ns, cs) == [i \in 1..Len(ns) |-> Col(ns[i], cs[i].dtype, cs[i].values)]

Scalars == {IntV(1), StrV(<<"x", ";", "y">>), Null, BoolV(TRUE)}

Keys == { <<"a">>, <<"a", ".", "a">>, <<"a", ";", "a">> }

KeyLists(m) == {ks \in [1..m -> Keys] : \A i, j \in 1..m : i # j => ks[i] # ks[j]}

RECURSIVE NodesOfSize(_)
RECURSIVE Forests(_)
\* the sequences of nested values with m nodes in all
Forests(m) ==
    IF m = 0 THEN {<<>>}
    ELSE UNION { {<<t>> \o f : t \in NodesOfSize(j), f \in Forests(m - j)} : j \in 1..m }

\* the nested values with n nodes
NodesOfSize(n) ==
    IF n = 1 THEN {Leaf(v) : v \in Scalars} \cup {ListNode(<<>>), DictNode(<<>>, <<>>)}
    ELSE {ListNode(f) : f \in Forests(n - 1)}
         \cup UNION { {DictNode(ks, f) : ks \in KeyLists(Len(f))} : f \in Forests(n - 1) }

\* { "a": { "b": 1, "c": [2, 3] } }
ExampleNested ==
    DictNode(<< <<"a">> >>,
             << DictNode(<< <<"b">>, <<"c">> >>,
                         << Leaf(IntV(1)), ListNode(<<Leaf(IntV(2)), Leaf(IntV(3))>>) >>) >>)

\* [ {"x": 1}, {"x": 2}, {"y": 3} ]
ExampleBatch ==
    ListNode(<< DictNode(<< <<"x">> >>, <<Leaf(IntV(1))>>),
                DictNode(<< <<"x">> >>, <<Leaf(IntV(2))>>),
                DictNode(<< <<"y">> >>, <<Leaf(IntV(3))>>) >>)

----------------------------------------------------------------------------
(* Core File Reading & Analysis *)

NoData == Leaf(Null)

InitTabular ==
    /\ kind \in {"qvd", "parquet"}
    /\ \E n \in 0..MaxRows, ns \in NameLists :
          \E cs \in [1..Len(ns) -> IF kind = "qvd" THEN QvdColumns(n)
                                                    ELSE ParquetColumns(n)] :
              df_in = Table(ns, cs)
    /\ pc = "read"
    /\ df = <<>>
    /\ data = NoData
    /\ output_lines = <<>>
    /\ picks = <<>>
    /\ split_log = <<>>

InitSemi ==
    /\ kind = "json"
    /\ \/ data \in {ExampleNested, ExampleBatch}
       \/ data \in NodesOfSize(1)
       \/ \E n \in 2..MaxNodes : \E f \in Forests(n - 1) :
             \/ data = ListNode(f)
             \/ \E ks \in KeyLists(Len(f)) : data = DictNode(ks, f)
    /\ pc = "read"
    /\ df_in = <<>>
    /\ df = <<>>
    /\ output_lines = <<>>
    /\ picks = <<>>
    /\ split_log = <<>>

\* read_file, '.qvd': the table read, then apply_qlik_cloud_inference
ReadFileQvd ==
    /\ pc = "read" /\ kind = "qvd"
    /\ df' = apply_qlik_cloud_inference(df_in)
    /\ pc' = "loaded"
    /\ UNCHANGED <<kind, df_in, data, output_lines, picks, split_log>>

\* read_file, '.parquet' ('.csv', '.xls', '.xlsx'): the table as read
ReadFileParquet ==
    /\ pc = "read" /\ kind = "parquet"
    /\ df' = df_in
    /\ pc' = "loaded"
    /\ UNCHANGED <<kind, df_in, data, output_lines, picks, split_log>>

\* read_file, '.json': the nested value is handed on as it is
ReadFileJson ==
    /\ pc = "read" /\ kind = "json"
    /\ pc' = "loaded"
    /\ UNCHANGED <<kind, df_in, df, data, output_lines, picks, split_log>>

\* analyze_file, file_type 'tabular': process_tabular with the rows it draws
AnalyzeTabular ==
    /\ pc = "loaded" /\ kind \in {"qvd", "parquet"}
    /\ \E rows \in Draws(df) :
          /\ output_lines' = process_tabular(df, rows)
          /\ picks' = rows
    /\ pc' = "done"
    /\ UNCHANGED <<kind, df_in, df, data, split_log>>

\* analyze_file, file_type 'semi_structured': process_semi_structured_data
AnalyzeSemiStructured ==
    /\ pc = "loaded" /\ kind = "json"
    /\ output_lines' = process_semi_structured_data(data)
    /\ split_log' = SplitLog(data)
    /\ pc' = "done"
    /\ UNCHANGED <<kind, df_in, df, data, picks>>

NextTabular == ReadFileQvd \/ ReadFileParquet \/ AnalyzeTabular

NextSemi == ReadFileJson \/ AnalyzeSemiStructured

SpecTabular == InitTabular /\ [][NextTabular]_vars

SpecSemi == InitSemi /\ [][NextSemi]_vars

----------------------------------------------------------------------------
(* What the claims speak of, stated apart from the operations above *)

\* A value the boolean test accepts: trimmed and lowercased it is a token.
BooleanLike(v) == v.t # "null" /\ Strip(Lower(PyStr(v))) \in bool_values

\* The boolean a boolean-like value stands for.
BooleanMeant(v) ==
    BoolV(Strip(Lower(PyStr(v))) \in { <<"t", "r", "u", "e">>, <<"1">> })

HasValue(c) == \E r \in 1..Len(c.values) : c.values[r].t # "null"

\* The index in output_lines of the line of the column called name.
LineOf(name) == ColumnIndex(df, name)

IsPrefix(p, s) == Len(p) <= Len(s) /\ SubSeq(s, 1, Len(p)) = p

RECURSIVE Flatten(_)
Flatten(ss) == IF ss = <<>> THEN <<>> ELSE Head(ss) \o Flatten(Tail(ss))

\* A position in a nested value is the sequence of child numbers leading to it.
\* The positions of the scalar leaves, depth first, children in their order.
RECURSIVE LeafPositions(_)
LeafPositions(node) ==
    IF node.k = "leaf" THEN << <<>> >>
    ELSE Flatten([i \in 1..Len(node.kids) |->
                    [q \in 1..Len(LeafPositions(node.kids[i])) |->
                        <<i>> \o LeafPositions(node.kids[i])[q]]])

\* The positions of all the nodes below the root.
RECURSIVE InnerPositions(_)
InnerPositions(node) ==
    Flatten([i \in 1..Len(node.kids) |->
                << <<i>> >> \o
                [q \in 1..Len(InnerPositions(node.kids[i])) |->
                    <<i>> \o InnerPositions(node.kids[i])[q]]])

RECURSIVE NodeAt(_, _)
NodeAt(node, pos) == IF pos = <<>> THEN node ELSE NodeAt(node.kids[Head(pos)], Tail(pos))

\* The path of a position: parent + "." + key (the key alone under an empty
\* parent) for a member, parent + "[i]" for an element.
RECURSIVE ClaimPath(_, _, _)
ClaimPath(node, pos, parent) ==
    IF pos = <<>> THEN parent
    ELSE LET i == Head(pos)
             here == IF node.k = "dict"
                     THEN (IF parent = <<>> THEN node.keys[i]
                           ELSE parent \o <<".">> \o node.keys[i])
                     ELSE parent \o <<"[">> \o IntToText(i - 1) \o <<"]">>
         IN  ClaimPath(node.kids[i], Tail(pos), here)

ClaimType(v) ==
    IF v.t = "bool" THEN L_Boolean
    ELSE IF v.t \in {"int", "float"} THEN L_Numeric
    ELSE IF v.t = "str" THEN L_String ELSE L_Unknown

ClaimExample(v) == IF v.t = "null" THEN T_NA ELSE PyStr(v)

\* The record of the leaf at pos of node: path, type and example.
ClaimRecord(node, pos) ==
    [field   |-> ClaimPath(node, pos, <<>>),
     dtype   |-> ClaimType(NodeAt(node, pos).v),
     example |-> ClaimExample(NodeAt(node, pos).v)]

\* The records of the leaves of node, in pre-order.
ClaimRecords(node) ==
    [i \in 1..Len(LeafPositions(node)) |-> ClaimRecord(node, LeafPositions(node)[i])]

\* The records of the items of a top-level list, item after item.
ClaimItemRecords(node) ==
    Flatten([i \in 1..Len(node.kids) |-> ClaimRecords(node.kids[i])])

RenderRecord(rec) == rec.field \o <<";">> \o rec.dtype \o <<";">> \o rec.example

RenderAll(recs) == [i \in 1..Len(recs) |-> RenderRecord(recs[i])]

\* The records whose field no earlier record has, in their order.
RECURSIVE FirstOfEachField(_, _)
FirstOfEachField(recs, i) ==
    IF i > Len(recs) THEN <<>>
    ELSE (IF \E j \in 1..(i - 1) : recs[j].field = recs[i].field
          THEN <<>> ELSE <<recs[i]>>)
         \o FirstOfEachField(recs, i + 1)

Done == pc = "done"

----------------------------------------------------------------------------
(* The claims *)

\* C1: after apply_qlik_cloud_inference, a raw column with a value, all of
\* whose non-null values are boolean-like once trimmed and lowercased, is
\* Boolean, and each such value has become true exactly when its trimmed,
\* lowercased text is "true" or "1".
C1_BooleanRewrite ==
    (kind = "qvd" /\ pc # "read") =>
        \A i \in 1..Len(df_in) :
            LET c == df_in[i] IN
            (/\ c.dtype = "object" /\ HasValue(c)
             /\ \A r \in 1..Len(c.values) :
                    c.values[r].t # "null" => BooleanLike(c.values[r]))
            => /\ infer_data_type_for_series(Column(df, c.name)) = L_Boolean
               /\ \A r \in 1..Len(c.values) :
                      c.values[r].t # "null"
                      => Column(df, c.name).values[r] = BooleanMeant(c.values[r])

\* C2: a raw column with rows that passes the numeric test and the date test yields
\* exactly two lines, "<name>;Numeric;..." immediately followed by
\* "<name>_DualText;String;...".
C2_DualPairLines ==
    (kind = "qvd" /\ Done) =>
        \A i \in 1..Len(df_in) :
            LET c == df_in[i] IN
            (/\ c.dtype = "object" /\ Len(c.values) >= 1
             /\ ~EndsWith(c.name, T_DualText)
             /\ is_numeric_series(c.values) /\ is_date_series(c.values))
            => \E k \in 1..(Len(output_lines) - 1) :
                  /\ split_2(output_lines[k]).field = c.name
                  /\ split_2(output_lines[k]).dtype = L_Numeric
                  /\ split_2(output_lines[k + 1]).field = c.name \o T_DualText
                  /\ split_2(output_lines[k + 1]).dtype = L_String
                  /\ \A j \in 1..Len(output_lines) :
                        split_2(output_lines[j]).field \in {c.name, c.name \o T_DualText}
                        => j \in {k, k + 1}

\* C3: for a numeric column with two distinct values or more and its
\* companion "<name>_DualText" of date texts, the two examples of the report come from one
\* row, whatever random.choice draws.
C3_DualPairSharesExample ==
    Done =>
        \A i, j \in 1..Len(df) :
            (/\ df[j].name = df[i].name \o T_DualText
             /\ df[i].dtype \in {"int64", "float64"} /\ df[j].dtype = "object"
             /\ \A r \in 1..Len(df[i].values) :
                    /\ df[i].values[r].t # "null"
                    /\ df[j].values[r].t = "str" /\ can_parse_date(df[j].values[r].s)
             /\ \E r1, r2 \in 1..Len(df[i].values) :
                    /\ df[i].values[r1].t # "null" /\ df[i].values[r2].t # "null"
                    /\ df[i].values[r1] # df[i].values[r2])
            => \E r \in 1..Len(df[i].values) :
                  /\ df[i].values[r].t # "null"
                  /\ df[j].values[r].t # "null"
                  /\ split_2(output_lines[i]).example = PyStr(df[i].values[r])
                  /\ split_2(output_lines[j]).example = PyStr(df[j].values[r])

\* C6: a raw column with rows, all of them null, gets the line
\* "<name>;Boolean;N/A".
C6_AllNullLine ==
    (kind = "qvd" /\ Done) =>
        \A i \in 1..Len(df_in) :
            LET c == df_in[i] IN
            (/\ c.dtype = "object" /\ Len(c.values) >= 1 /\ ~HasValue(c)
             /\ ~EndsWith(c.name, T_DualText))
            => output_lines[LineOf(c.name)]
                  = c.name \o <<";">> \o L_Boolean \o <<";">> \o T_NA

\* A value none of the three tests accepts.
PlainText(v) ==
    v.t # "null" /\ ~BooleanLike(v) /\ ~NumericParseable(v) /\ ~can_parse_date(PyStr(v))

\* C10: apply_qlik_cloud_inference leaves a raw column with a value that is
\* neither boolean-like, numeric nor a date as it was, a String; it leaves a
\* typed column as it was; and it writes no column but the raw ones and their
\* "<name>_DualText" companions.
C10_InferenceFrame ==
    (kind = "qvd" /\ pc # "read") =>
        /\ Len(df) >= Len(df_in)
        /\ \A i \in 1..Len(df_in) :
              LET c == df_in[i] IN
              /\ df[i].name = c.name
              /\ (c.dtype = "object" /\ \E r \in 1..Len(c.values) : PlainText(c.values[r]))
                 => /\ df[i] = c
                    /\ infer_data_type_for_series(df[i]) = L_String
                    /\ Done => split_2(output_lines[i]).dtype = L_String
              /\ c.dtype # "object" => df[i] = c
        /\ \A j \in (Len(df_in) + 1)..Len(df) :
              \E i \in 1..Len(df_in) :
                  df_in[i].dtype = "object" /\ df[j].name = df_in[i].name \o T_DualText

\* C10 happens: a table with a typed column and a raw column holding plain
\* text beside a date has been classified and reported.
C10_Witness ==
    /\ kind = "qvd" /\ Done
    /\ \E i, j \in 1..Len(df_in) :
          /\ df_in[i].dtype = "int64"
          /\ df_in[j].dtype = "object"
          /\ \E r1, r2 \in 1..Len(df_in[j].values) :
                /\ PlainText(df_in[j].values[r1])
                /\ can_parse_date(PyStr(df_in[j].values[r2]))
          /\ df[j] = df_in[j]


\* C7: process_semi_structured gives one line per scalar leaf, in pre-order,
\* with the path, the scalar type and the example (or N/A) of the leaf: the
\* report of a value that is no list is these lines, and under a top-level
\* list the lines split, item after item, are those of the items.
C7_OneLinePerLeaf ==
    (kind = "json" /\ Done) =>
        IF data.k # "list"
        THEN output_lines = RenderAll(ClaimRecords(data))
        ELSE RenderAll(split_log) = RenderAll(ClaimItemRecords(data))

\* C7 happens: { "a": { "b": 1, "c": [2, 3] } } is reported as a.b = 1,
\* a.c[0] = 2, a.c[1] = 3.
C7_Witness ==
    /\ Done /\ data = ExampleNested
    /\ output_lines =
         << <<"a", ".", "b">> \o <<";">> \o L_Numeric \o <<";", "1">>,
            <<"a", ".", "c", "[", "0", "]">> \o <<";">> \o L_Numeric \o <<";", "2">>,
            <<"a", ".", "c", "[", "1", "]">> \o <<";">> \o L_Numeric \o <<";", "3">> >>

\* C4: no two lines of a report have the same path: the paths of the leaves
\* of a value that is no list differ, and so do the path segments of the
\* lines of a top-level list, and the path segments of the lines of a table.
C4_PathUnique ==
    /\ (kind = "json" /\ Done) =>
        IF data.k # "list"
        THEN \A i, j \in 1..Len(ClaimRecords(data)) :
                i # j => ClaimRecords(data)[i].field # ClaimRecords(data)[j].field
        ELSE \A i, j \in 1..Len(output_lines) :
                i # j => split_2(output_lines[i]).field # split_2(output_lines[j]).field
    /\ (kind \in {"qvd", "parquet"} /\ Done) =>
          \A i, j \in 1..Len(output_lines) :
              i # j => split_2(output_lines[i]).field # split_2(output_lines[j]).field

\* C5: the report of a top-level list holds every path of the flattening of
\* its items once, with the type and the example of the earliest occurrence,
\* in the order of the first occurrences.
C5_FirstWins ==
    (kind = "json" /\ Done /\ data.k = "list") =>
        output_lines = RenderAll(FirstOfEachField(ClaimItemRecords(data), 1))

\* The lines of the items of a top-level list, as split: those whose field no
\* earlier one has are the kept ones.
KeptLines == RenderAll(FirstOfEachField(split_log, 1))

\* C8: under a top-level list, every record whose example holds the
\* separator is split into its path, its type and its example, and the lines
\* rebuilt are the kept lines, unchanged.
C8_SplitRecoversRecord ==
    (kind = "json" /\ Done /\ data.k = "list") =>
        /\ Len(split_log) = Len(ClaimItemRecords(data))
        /\ \A i \in 1..Len(split_log) :
              Contains(ClaimItemRecords(data)[i].example, ";")
              => split_log[i] = ClaimItemRecords(data)[i]
        /\ \A i \in 1..Len(split_log) :
              RenderRecord(split_log[i]) = RenderRecord(ClaimItemRecords(data)[i])
        /\ output_lines = KeptLines

\* The statement of C8 restricted to the records whose path does not hold the
\* separator.
C8_SplitRecoversRecordNoSeparatorInPath ==
    (kind = "json" /\ Done /\ data.k = "list") =>
        /\ Len(split_log) = Len(ClaimItemRecords(data))
        /\ \A i \in 1..Len(split_log) :
              (/\ Contains(ClaimItemRecords(data)[i].example, ";")
               /\ ~Contains(ClaimItemRecords(data)[i].field, ";"))
              => split_log[i] = ClaimItemRecords(data)[i]
        /\ \A i \in 1..Len(split_log) :
              RenderRecord(split_log[i]) = RenderRecord(ClaimItemRecords(data)[i])
        /\ output_lines = KeptLines

\* C9: no field is dropped: every member of every object of an input whose
\* root is an object has a line whose path is the member's path or extends
\* it, and every column of a table has a line.
C9_NoFieldDropped ==
    /\ (kind = "json" /\ Done /\ data.k = "dict") =>
          \A q \in 1..Len(InnerPositions(data)) :
              LET pos == InnerPositions(data)[q] IN
              NodeAt(data, SubSeq(pos, 1, Len(pos) - 1)).k = "dict"
              => \E i \in 1..Len(output_lines) :
                    IsPrefix(ClaimPath(data, pos, <<>>), output_lines[i])
    /\ (kind \in {"qvd", "parquet"} /\ Done) =>
          /\ Len(output_lines) = Len(df)
          /\ \A i \in 1..Len(df_in) :
                IsPrefix(df_in[i].name, output_lines[LineOf(df_in[i].name)])

====
